---- MODULE Spec2Model ----
(***************************************************************************)
(* Model of the hierarchical todo list (App.py, utils.py, DBSetup.py).     *)
(*                                                                         *)
(* The store is the SQLite database: the tables categories, tasks and      *)
(* task_status_logs with their AUTOINCREMENT counters, plus the seeded     *)
(* statuses table.  Every Streamlit session runs the script against the    *)
(* same database file; a statement (or the explicit transaction of         *)
(* delete_category) is atomic, a form handler that commits twice is not.   *)
(*                                                                         *)
(* Spec      the application driven through its forms by several sessions  *)
(* SpecLog   insert_status_log called with any name on tasks of the form   *)
(* SpecPath  build_category_hierarchy run on an arbitrary categories table *)
(***************************************************************************)
EXTENDS Integers, Sequences, FiniteSets, Bags, TLC

VARIABLES
    categories,        \* table categories: rows [id, name, parent_id]
    tasks,             \* table tasks: rows [id, description, due_date, parent_id, category_id]
    task_status_logs,  \* table task_status_logs: rows [id, task_id, status_id, timestamp]
    cat_seq,           \* AUTOINCREMENT counter of categories (last id handed out)
    task_seq,          \* AUTOINCREMENT counter of tasks
    log_seq,           \* AUTOINCREMENT counter of task_status_logs
    running,           \* bag of the form handlers the sessions are inside of
    ret,               \* outcome of the last call: "returned", "raised", or the
                       \* success flag of delete_category with its argument
    hier               \* the running build_category_hierarchy (SpecPath only)

vars == <<categories, tasks, task_status_logs, cat_seq, task_seq, log_seq,
          running, ret, hier>>

store == <<categories, tasks, task_status_logs, cat_seq, task_seq, log_seq>>

\* SQL NULL / Python None / pandas NaN in an id, date or text column
NULL == 0

-----------------------------------------------------------------------------
(* Bounds of the model *)

MaxRows == 5       \* rows ever inserted, values entered in a task's cells
MaxClock == 1      \* seconds after the first in which log entries are written
MaxPathCats == 3   \* rows of the categories table in SpecPath
MaxExportTasks == 2   \* tasks of the stores in SpecExport

Sessions == {1, 2}

\* what the users enter in the forms
Names == {"Work"}
DueDates == {NULL, 1}
Descriptions == {NULL, 1}
StatusChoices == {"In Progress", "Completed", "Cancelled"}

-----------------------------------------------------------------------------
(* Seeded lookup table statuses, DBSetup.py *)

StatusNames ==
    <<"Not Started", "In Progress", "Blocked", "Ongoing", "Completed", "Cancelled">>

statuses == {[id |-> i, name |-> StatusNames[i]] : i \in 1..Len(StatusNames)}

\* status_options = statuses['name'].tolist()
status_options == {s.name : s \in statuses}

\* a name the lookup table does not hold
UnknownStatus == "Done"

\* (SELECT id FROM statuses WHERE name=?): a scalar subquery is NULL without a row
StatusIdOf(status_name) ==
    IF \E s \in statuses : s.name = status_name
    THEN (CHOOSE s \in statuses : s.name = status_name).id
    ELSE NULL

-----------------------------------------------------------------------------
(* Reading the status log, utils.py *)

\* variant: the id tie-break ascending (ORDER BY tsl.timestamp DESC, tsl.id)
OrderByTimestampDescIdAsc(a, b) ==
    \/ a.timestamp > b.timestamp
    \/ a.timestamp = b.timestamp /\ a.id < b.id

\* ORDER BY tsl.timestamp DESC, tsl.id DESC: row a is listed before row b
OrderByTimestampDescIdDesc(a, b) ==
    \/ a.timestamp > b.timestamp
    \/ a.timestamp = b.timestamp /\ a.id > b.id

\* the rows of the status query in the order of its ORDER BY clause
RECURSIVE OrderedLog(_)
OrderedLog(rows) ==
    IF rows = {} THEN <<>>
    ELSE LET first == CHOOSE r \in rows :
                          \A o \in rows \ {r} : ~OrderByTimestampDescIdDesc(o, r)
         IN  <<first>> \o OrderedLog(rows \ {first})

\* FROM task_status_logs tsl JOIN statuses s ON tsl.status_id = s.id WHERE tsl.task_id = ?
LogJoinStatuses(task_id) ==
    {[id |-> e.id, timestamp |-> e.timestamp, name |-> s.name] :
        <<e, s>> \in {p \in task_status_logs \X statuses :
                        p[1].task_id = task_id /\ p[1].status_id = p[2].id}}

get_current_status(task_id) ==
    LET result == OrderedLog(LogJoinStatuses(task_id))
    IN  IF Len(result) > 0 THEN result[1].name ELSE "Pending"

\* the listings of a set of rows, each row once
Listings(rows) ==
    {seq \in [1..Cardinality(rows) -> rows] :
        \A i, j \in 1..Cardinality(rows) : i # j => seq[i] # seq[j]}

\* ORDER BY tsl.timestamp DESC
OrderByTimestampDesc(seq) ==
    \A i, j \in 1..Len(seq) : i < j => seq[i].timestamp >= seq[j].timestamp

\* fetch_status_history: the query names no order for rows of one second, so
\* the value is the set of the listings the ORDER BY clause admits.  A row is
\* kept with the id of its entry to tell the entries of one status apart.
fetch_status_history(task_id) ==
    {seq \in Listings(LogJoinStatuses(task_id)) : OrderByTimestampDesc(seq)}

-----------------------------------------------------------------------------
(* latest_status of build_task_hierarchy_for_tree, utils.py *)

\* variant: the first entry of the group (MIN(id))
MinId(ids) == CHOOSE i \in ids : \A j \in ids : i <= j

\* MAX(id)
MaxId(ids) == CHOOSE i \in ids : \A j \in ids : i >= j

\* SELECT task_id, MAX(id) AS max_id FROM task_status_logs GROUP BY task_id
latest_log ==
    {[task_id |-> t,
      max_id |-> MaxId({e.id : e \in {x \in task_status_logs : x.task_id = t}})] :
        t \in {e.task_id : e \in task_status_logs}}

\* COALESCE(s.name, 'Pending') over LEFT JOIN statuses s ON tsl.status_id = s.id
StatusNameOrPending(status_id) ==
    IF \E s \in statuses : s.id = status_id
    THEN (CHOOSE s \in statuses : s.id = status_id).name
    ELSE "Pending"

\* latest_log LEFT JOIN task_status_logs tsl ON tsl.id = latest_log.max_id
LatestLogStatus ==
    {[task_id |-> tsl.task_id, status |-> StatusNameOrPending(tsl.status_id)] :
        tsl \in {e \in task_status_logs : \E l \in latest_log : e.id = l.max_id}}

\* SELECT t.id AS task_id, 'Pending' AS status FROM tasks t WHERE NOT EXISTS (...)
PendingWithoutLog ==
    {[task_id |-> t.id, status |-> "Pending"] :
        t \in {u \in tasks : ~\E e \in task_status_logs : e.task_id = u.id}}

\* the rows of latest_status with their multiplicity (UNION ALL)
latest_status == SetToBag(LatestLogStatus) (+) SetToBag(PendingWithoutLog)

-----------------------------------------------------------------------------
(* fetch_task_tree, utils.py *)

\* the ids of a set in ascending order (ORDER BY t.id)
RECURSIVE OrderById(_)
OrderById(ids) ==
    IF ids = {} THEN <<>>
    ELSE LET first == CHOOSE i \in ids : \A j \in ids : i <= j
         IN  <<first>> \o OrderById(ids \ {first})

TaskRow(id) == CHOOSE t \in tasks : t.id = id

\* SELECT ... FROM tasks t [WHERE t.category_id IN (...)] ORDER BY t.id
\* `if selected_category_ids:` is false for None and for the empty list
QueryTasks(selected_category_ids) ==
    LET hits == IF selected_category_ids # {}
                THEN {t \in tasks : t.category_id \in selected_category_ids}
                ELSE tasks
    IN  [i \in 1..Cardinality(hits) |-> TaskRow(OrderById({t.id : t \in hits})[i])]

\* sum(1 for _, row in df.iterrows() if row['parent_id'] == tid)
CountSubtasks(df, tid) ==
    Cardinality({i \in 1..Len(df) : df[i].parent_id = tid})

\* df['current_status'] = ...; df['num_subtasks'] = ...
WithDerivedColumns(df) ==
    [i \in 1..Len(df) |->
        [id |-> df[i].id, description |-> df[i].description,
         due_date |-> df[i].due_date, parent_id |-> df[i].parent_id,
         category_id |-> df[i].category_id,
         current_status |-> get_current_status(df[i].id),
         num_subtasks |-> CountSubtasks(df, df[i].id)]]

\* variant: only the Completed rows are dropped
NotCompleted(row) == row.current_status # "Completed"

\* df[(df['current_status'] != 'Completed') & (df['current_status'] != 'Cancelled')]
NotCompletedOrCancelled(row) ==
    row.current_status # "Completed" /\ row.current_status # "Cancelled"

fetch_task_tree(selected_category_ids, show_completed) ==
    LET df == QueryTasks(selected_category_ids)
    IN  IF Len(df) = 0 THEN df
        ELSE IF ~show_completed
             THEN SelectSeq(WithDerivedColumns(df), NotCompletedOrCancelled)
             ELSE WithDerivedColumns(df)

\* the rows of a result as a set
Rows(df) == {df[i] : i \in 1..Len(df)}

-----------------------------------------------------------------------------
(* Sorting the task view, App.py *)

\* status_order of the "Status" sort
status_order ==
    <<"In Progress", "Ongoing", "Blocked", "Not Started", "Completed", "Cancelled">>

\* the missing value of pandas
NaN == "NaN"

\* pd.Categorical(values, categories=status_order, ordered=True): a value
\* outside the categories becomes NaN
AsCategorical(status) ==
    IF \E i \in 1..Len(status_order) : status_order[i] = status THEN status ELSE NaN

\* the rank of a category in the order; sort_values puts NaN last
StatusRank(status) ==
    IF status = NaN THEN Len(status_order) + 1
    ELSE CHOOSE i \in 1..Len(status_order) : status_order[i] = status

\* sort_by == "Status": sort_values(by=['current_status', 'priority_level'])
\* on the categorical column.  The value is the set of listings the sort
\* admits; priority_level, which the model does not hold, orders the rows of
\* one status in any way.
SortByStatus(df) ==
    {seq \in Listings({[row EXCEPT !.current_status = AsCategorical(@)] : row \in Rows(df)}) :
        \A i, j \in 1..Len(seq) :
            i < j => StatusRank(seq[i].current_status) <= StatusRank(seq[j].current_status)}

\* sort_by == "Priority": sort_values(by=['priority_level', 'due_date']);
\* priority_level orders the rows in any way
SortByPriority(df) == Listings(Rows(df))

\* sort_by == "Due Date (Soonest)": sort_values(by='due_date',
\* ascending=True, na_position='last')
SortByDueDate(df) ==
    {seq \in Listings(Rows(df)) :
        \A i, j \in 1..Len(seq) :
            i < j => \/ seq[j].due_date = NULL
                     \/ seq[i].due_date # NULL /\ seq[i].due_date <= seq[j].due_date}

\* the options of the "Sort by" selectbox
SortOptions == {"Default Order", "Status", "Priority", "Due Date (Soonest)"}

\* if not tasks_df.empty and sort_by != "Default Order": ...
SortTasks(df, sort_by) ==
    IF Len(df) = 0 \/ sort_by = "Default Order" THEN {df}
    ELSE CASE sort_by = "Status" -> SortByStatus(df)
           [] sort_by = "Priority" -> SortByPriority(df)
           [] sort_by = "Due Date (Soonest)" -> SortByDueDate(df)

-----------------------------------------------------------------------------
(* Writes of App.py and utils.py on the store *)

\* variant: a category without parent is stored as its own parent
InsertSelfRooted(cats, id, name, parent_id) ==
    cats \cup {[id |-> id, name |-> name,
                parent_id |-> IF parent_id = NULL THEN id ELSE parent_id]}

\* INSERT INTO categories (name, parent_id) VALUES (?, ?)
InsertCategoryRow(cats, id, name, parent_id) ==
    cats \cup {[id |-> id, name |-> name, parent_id |-> parent_id]}

\* INSERT INTO tasks (...) VALUES (...)
InsertTaskRow(tsks, id, description, due_date, parent_id, category_id) ==
    tsks \cup {[id |-> id, description |-> description, due_date |-> due_date,
                parent_id |-> parent_id, category_id |-> category_id]}

\* variant: the column takes NULL
StatusIdNullable(status_id) == TRUE

\* task_status_logs.status_id INTEGER NOT NULL
StatusIdNotNull(status_id) == status_id # NULL

\* variant: the status is kept as one row per task that the write replaces
ReplaceLogRow(logs, id, task_id, status_id, timestamp) ==
    {e \in logs : e.task_id # task_id}
        \cup {[id |-> id, task_id |-> task_id, status_id |-> status_id,
                timestamp |-> timestamp]}

\* INSERT INTO task_status_logs (task_id, status_id, reason, extra_info) VALUES (...)
\* timestamp DATETIME DEFAULT CURRENT_TIMESTAMP
InsertLogRow(logs, id, task_id, status_id, timestamp) ==
    logs \cup {[id |-> id, task_id |-> task_id, status_id |-> status_id,
                timestamp |-> timestamp]}

\* variant: the sub-categories keep their parent_id
KeepSubCategories(cats, category_id) == cats

\* UPDATE categories SET parent_id = NULL WHERE parent_id = ?
ReparentSubCategories(cats, category_id) ==
    {IF c.parent_id = category_id THEN [c EXCEPT !.parent_id = NULL] ELSE c : c \in cats}

\* variant: the tasks of the category go with it (ON DELETE CASCADE)
DeleteTasksOfCategory(tsks, category_id) ==
    {t \in tsks : t.category_id # category_id}

\* UPDATE tasks SET category_id = NULL WHERE category_id = ?
UncategorizeTasks(tsks, category_id) ==
    {IF t.category_id = category_id THEN [t EXCEPT !.category_id = NULL] ELSE t : t \in tsks}

\* DELETE FROM categories WHERE id = ?
DeleteCategoryRow(cats, category_id) ==
    {c \in cats : c.id # category_id}

\* The statements of delete_category run in one transaction.  failAt names the
\* statement that raises sqlite3.Error (1, 2, 3; 4 is conn.commit()), 0 is none.
\* The value is the connection's uncommitted view when control leaves the try.
DeleteCategoryWork(category_id, failAt) ==
    LET s0 == [categories |-> categories, tasks |-> tasks]
        s1 == [s0 EXCEPT !.categories = ReparentSubCategories(s0.categories, category_id)]
        s2 == [s1 EXCEPT !.tasks = UncategorizeTasks(s1.tasks, category_id)]
        s3 == [s2 EXCEPT !.categories = DeleteCategoryRow(s2.categories, category_id)]
    IN  CASE failAt = 1 -> s0
          [] failAt = 2 -> s1
          [] failAt = 3 -> s2
          [] OTHER -> s3

\* variant: no rollback, the connection's context manager commits the
\* statements that ran
KeepWork(committed, work) == work

\* except sqlite3.Error: conn.rollback()
Rollback(committed, work) == committed

\* UPDATE tasks SET description = ? WHERE id = ?
UpdateDescription(tsks, id, description) ==
    {IF t.id = id THEN [t EXCEPT !.description = description] ELSE t : t \in tsks}

\* UPDATE tasks SET due_date = ? WHERE id = ?
UpdateDueDate(tsks, id, due_date) ==
    {IF t.id = id THEN [t EXCEPT !.due_date = due_date] ELSE t : t \in tsks}

\* insert_status_log: the INSERT raises sqlite3.IntegrityError when the
\* subquery finds no status id; otherwise one row is appended and committed.
\* The value is the log table, its counter and whether the call returned;
\* current_timestamp is the store clock at the INSERT.
insert_status_log(task_id, status_name, current_timestamp) ==
    LET status_id == StatusIdOf(status_name)
    IN  IF StatusIdNotNull(status_id)
        THEN [logs |-> InsertLogRow(task_status_logs, log_seq + 1, task_id, status_id,
                                    current_timestamp),
              seq |-> log_seq + 1, ok |-> TRUE]
        ELSE [logs |-> task_status_logs, seq |-> log_seq, ok |-> FALSE]

-----------------------------------------------------------------------------
(* What the task view renders, App.py display loop *)

\* status_st_colors[status] in display_task raises KeyError for "Pending":
\* the row gets no forms.  The exception also ends the script run, so rows
\* that display_task would reach later get none in that run; which rows those
\* are depends on the sort order chosen, and the model admits every row whose
\* own chain of parents can be rendered.
HasStatusColor(status) == status \in status_options

\* display_task: a row is rendered when display_task is called on it (a root of
\* its category group, or a child listed in children_dict of a rendered row)
\* and its label can be built
RECURSIVE RenderedFrom(_, _)
RenderedFrom(group, called) ==
    LET shown == {r \in called : HasStatusColor(r.current_status)}
        child_rows == {r \in group : \E p \in shown : r.parent_id = p.id}
    IN  IF shown = {} THEN {} ELSE shown \cup RenderedFrom(group, child_rows)

\* the subheader of a group: category_hierarchy[...]['full_path'].iloc[0]
\* raises IndexError for a category_id that is not in categories
HasSubheader(c) == c = NULL \/ \E x \in categories : x.id = c

\* tasks_df.dropna(subset=['category_id']).groupby('category_id'), then the
\* uncategorized rows, which a category filter never returns
RenderedRows(df) ==
    UNION {LET group == {r \in Rows(df) : r.category_id = c}
           IN  RenderedFrom(group, {r \in group : r.parent_id = NULL}) :
           c \in {x \in {r.category_id : r \in Rows(df)} : HasSubheader(x)}}

-----------------------------------------------------------------------------
(* Sessions *)
(***************************************************************************)
(* Every user action reruns the script: it loads the category list and     *)
(* the task view, then runs the handler of the submitted form.  The loads  *)
(* and each commit of the handler are separate transactions, so commits of *)
(* other sessions fall between them.  running holds, for every session     *)
(* inside a handler that commits or reads more than once, its position     *)
(* and the locals it carries (sessions are interchangeable, so a bag).     *)
(* A value that a handler takes from a load of its own run and uses once   *)
(* is drawn from the values such a load can have seen:                     *)
(*   category_ids  an id of the list was a row of categories at the load;  *)
(*                 ids are never reused, so it is an id handed out so far; *)
(*   status        row['current_status'] was the newest entry of the task  *)
(*                 at the fetch, the log only grows and a new entry is the *)
(*                 newest one, so it is the status of one of its entries.  *)
(***************************************************************************)

\* a session between two script runs can submit a form
IdleSession == BagCardinality(running) < Cardinality(Sessions)

\* the handler of a session: in render_subtask_form with cat_id read, or
\* past insert_task with the new task's id
SubtaskForm(parent_task_id, cat_id) ==
    [pc |-> "subtask_form", parent_task_id |-> parent_task_id, cat_id |-> cat_id,
     task_id |-> NULL]

TaskInserted(task_id) ==
    [pc |-> "task_inserted", parent_task_id |-> NULL, cat_id |-> NULL,
     task_id |-> task_id]

Start(h) == running (+) SetToBag({h})
Finish(h) == running (-) SetToBag({h})
Continue(h, g) == (running (-) SetToBag({h})) (+) SetToBag({g})

\* category_ids = [None] + category_hierarchy['id'].tolist()
category_ids == {NULL} \cup 1..cat_seq

\* the tasks whose row display_task renders under some choice of the
\* category filter and of "Show Completed/Cancelled"
rendered_ids ==
    UNION {{row.id : row \in RenderedRows(fetch_task_tree(selected_cat_ids, show_completed))} :
           <<selected_cat_ids, show_completed>> \in
               ({{}} \cup {{c} : c \in 1..cat_seq}) \X BOOLEAN}

\* status = row['current_status'] of a fetch made since the task has a log
ShownStatuses(id) ==
    {s.name : s \in {x \in statuses : \E e \in task_status_logs :
                        e.task_id = id /\ e.status_id = x.id}}

\* log rows still owed to the sessions that have inserted a task
OwedLogs ==
    BagCardinality([h \in {g \in BagToSet(running) : g.pc = "task_inserted"} |-> running[h]])

\* the store clock (CURRENT_TIMESTAMP, one-second resolution) does not run
\* backwards: an INSERT falls in the second of the latest entry or in a later
\* one.  The queries only compare timestamps, so the seconds are numbered in
\* the order in which entries fall into them, from 0.
Clock ==
    IF task_status_logs = {} THEN {0}
    ELSE LET latest == CHOOSE t \in 0..MaxClock :
                          /\ \E e \in task_status_logs : e.timestamp = t
                          /\ \A e \in task_status_logs : e.timestamp <= t
         IN  {t \in {latest, latest + 1} : t <= MaxClock}

\* description and due_date cells that hold a value
Edited(tsks) ==
    Cardinality({t \in tsks : t.description # NULL})
        + Cardinality({t \in tsks : t.due_date # NULL})

EditedIn(description, due_date) ==
    (IF description # NULL THEN 1 ELSE 0) + (IF due_date # NULL THEN 1 ELSE 0)

\* rows handed out or owed, cells filled
Used == cat_seq + task_seq + log_seq + OwedLogs + Edited(tasks)

\* the call returned normally / raised an exception
Returned == [out |-> "returned", category_id |-> NULL]
Raised == [out |-> "raised", category_id |-> NULL]

\* return True, "Category deleted. ..." / return False, f"Database error: {e}"
DeleteReturned(category_id, success) ==
    [out |-> IF success THEN "True" ELSE "False", category_id |-> category_id]

Init ==
    /\ categories = {}
    /\ tasks = {}
    /\ task_status_logs = {}
    /\ cat_seq = 0
    /\ task_seq = 0
    /\ log_seq = 0
    /\ running = EmptyBag
    /\ ret = Returned
    /\ hier = [pc |-> "off"]

\* form new_category: insert_category(cat_name, parent_id)
AddCategory(name, parent_id) ==
    /\ IdleSession
    /\ Used + 1 <= MaxRows
    /\ categories' = InsertCategoryRow(categories, cat_seq + 1, name, parent_id)
    /\ cat_seq' = cat_seq + 1
    /\ ret' = Returned
    /\ UNCHANGED <<tasks, task_status_logs, task_seq, log_seq, running, hier>>

\* form delete_category: delete_category(cat_id_to_delete) returns
\* (True, message) after the commit, (False, message) after the rollback
DeleteCategory(category_id, failAt) ==
    /\ IdleSession
    /\ LET committed == [categories |-> categories, tasks |-> tasks]
           work == DeleteCategoryWork(category_id, failAt)
           after == IF failAt = 0 THEN work ELSE Rollback(committed, work)
       IN  /\ categories' = after.categories
           /\ tasks' = after.tasks
    /\ ret' = DeleteReturned(category_id, failAt = 0)
    /\ UNCHANGED <<task_status_logs, cat_seq, task_seq, log_seq, running, hier>>

\* form new_main_task, first commit: insert_task(..., parent_id=None, category_id, ...)
CreateMainTask(description, due_date, category_id) ==
    /\ IdleSession
    /\ Used + 2 + EditedIn(description, due_date) <= MaxRows
    /\ tasks' = InsertTaskRow(tasks, task_seq + 1, description, due_date, NULL, category_id)
    /\ task_seq' = task_seq + 1
    /\ running' = Start(TaskInserted(task_seq + 1))
    /\ ret' = Returned
    /\ UNCHANGED <<categories, task_status_logs, cat_seq, log_seq, hier>>

\* second commit of both task forms: insert_status_log(task_id, "Not Started").
\* storeError: the statement raises sqlite3.OperationalError (the database is
\* locked, the disk is full) and the script run ends there.
LogNotStarted(h, storeError, current_timestamp) ==
    /\ h.pc = "task_inserted"
    /\ LET r == insert_status_log(h.task_id, "Not Started", current_timestamp)
       IN  IF storeError
           THEN /\ UNCHANGED <<task_status_logs, log_seq>>
                /\ ret' = Raised
           ELSE /\ task_status_logs' = r.logs
                /\ log_seq' = r.seq
                /\ ret' = IF r.ok THEN Returned ELSE Raised
    /\ running' = Finish(h)
    /\ UNCHANGED <<categories, tasks, cat_seq, task_seq, hier>>

\* form status_update of a rendered row: insert_status_log only when the
\* choice differs from the status the row shows
UpdateStatus(id, status, new_status, current_timestamp) ==
    /\ IdleSession
    /\ status \in ShownStatuses(id)
    /\ IF new_status # status
       THEN /\ Used + 1 <= MaxRows
            /\ LET r == insert_status_log(id, new_status, current_timestamp)
               IN  /\ task_status_logs' = r.logs
                   /\ log_seq' = r.seq
                   /\ ret' = IF r.ok THEN Returned ELSE Raised
       ELSE /\ UNCHANGED <<task_status_logs, log_seq>>
            /\ ret' = Returned
    /\ UNCHANGED <<categories, tasks, cat_seq, task_seq, running, hier>>

\* form description_update of a rendered row
SaveDescription(id, new_description) ==
    /\ IdleSession
    /\ tasks' = UpdateDescription(tasks, id, new_description)
    /\ Used + Edited(tasks') - Edited(tasks) <= MaxRows
    /\ ret' = Returned
    /\ UNCHANGED <<categories, task_status_logs, cat_seq, task_seq, log_seq, running, hier>>

\* form due_date_update of a rendered row (Save Due Date, or Clear with NULL)
SaveDueDate(id, due_to_save) ==
    /\ IdleSession
    /\ tasks' = UpdateDueDate(tasks, id, due_to_save)
    /\ Used + Edited(tasks') - Edited(tasks) <= MaxRows
    /\ ret' = Returned
    /\ UNCHANGED <<categories, task_status_logs, cat_seq, task_seq, log_seq, running, hier>>

\* render_subtask_form of a rendered row:
\* cat_id = get_category_id(parent_task_id)["category_id"].tolist()[0]
OpenSubtaskForm(parent_task_id) ==
    /\ IdleSession
    /\ running' = Start(SubtaskForm(parent_task_id, TaskRow(parent_task_id).category_id))
    /\ ret' = Returned
    /\ UNCHANGED <<store, hier>>

\* the run ends without "Create Subtask" submitted
CloseSubtaskForm(h) ==
    /\ h.pc = "subtask_form"
    /\ running' = Finish(h)
    /\ ret' = Returned
    /\ UNCHANGED <<store, hier>>

\* render_subtask_form, first commit: insert_task(..., parent_id=parent_task_id,
\* category_id=cat_id, ...)
CreateSubtask(h, description, due_date) ==
    /\ h.pc = "subtask_form"
    /\ Used + 2 + EditedIn(description, due_date) <= MaxRows
    /\ tasks' = InsertTaskRow(tasks, task_seq + 1, description, due_date,
                              h.parent_task_id, h.cat_id)
    /\ task_seq' = task_seq + 1
    /\ running' = Continue(h, TaskInserted(task_seq + 1))
    /\ ret' = Returned
    /\ UNCHANGED <<categories, task_status_logs, cat_seq, log_seq, hier>>

\* the forms of a row are those of a rendered row: rendered_ids
Next ==
    \/ \E name \in Names, parent_id \in category_ids :
         AddCategory(name, parent_id)
    \/ \E category_id \in category_ids \ {NULL}, failAt \in 0..4 :
         DeleteCategory(category_id, failAt)
    \/ \E description \in Descriptions, due_date \in DueDates,
          category_id \in category_ids :
         CreateMainTask(description, due_date, category_id)
    \/ \E h \in BagToSet(running), storeError \in BOOLEAN, current_timestamp \in Clock :
         LogNotStarted(h, storeError, current_timestamp)
    \/ \E id \in rendered_ids, status \in status_options,
          new_status \in StatusChoices, current_timestamp \in Clock :
         UpdateStatus(id, status, new_status, current_timestamp)
    \/ \E id \in rendered_ids, new_description \in Descriptions :
         SaveDescription(id, new_description)
    \/ \E id \in rendered_ids, due_to_save \in DueDates :
         SaveDueDate(id, due_to_save)
    \/ \E parent_task_id \in rendered_ids :
         OpenSubtaskForm(parent_task_id)
    \/ \E h \in BagToSet(running) : CloseSubtaskForm(h)
    \/ \E h \in BagToSet(running), description \in Descriptions, due_date \in DueDates :
         CreateSubtask(h, description, due_date)

Spec == Init /\ [][Next]_vars

-----------------------------------------------------------------------------
(* insert_status_log called with any name, utils.py *)

\* the names passed: seeded ones, and one the lookup table does not hold
StatusArguments == {"Blocked", "Completed", UnknownStatus}

\* insert_status_log(task_id, status_name) called outside the forms of App.py
CallInsertStatusLog(task_id, status_name, current_timestamp) ==
    /\ LET r == insert_status_log(task_id, status_name, current_timestamp)
       IN  /\ r.ok => Used + 1 <= MaxRows
           /\ task_status_logs' = r.logs
           /\ log_seq' = r.seq
           /\ ret' = IF r.ok THEN Returned ELSE Raised
    /\ UNCHANGED <<categories, tasks, cat_seq, task_seq, running, hier>>

\* tasks are created through the form new_main_task, then the function is
\* called on them
NextLog ==
    \/ \E description \in Descriptions, due_date \in DueDates,
          category_id \in category_ids :
         CreateMainTask(description, due_date, category_id)
    \/ \E h \in BagToSet(running), storeError \in BOOLEAN, current_timestamp \in Clock :
         LogNotStarted(h, storeError, current_timestamp)
    \/ \E t \in tasks, status_name \in StatusArguments, current_timestamp \in Clock :
         CallInsertStatusLog(t.id, status_name, current_timestamp)

SpecLog == Init /\ [][NextLog]_vars

-----------------------------------------------------------------------------
(* build_category_hierarchy on any categories table, App.py *)
(***************************************************************************)
(* The table is one that sqlite accepts, whoever wrote it: ids are         *)
(* distinct, a parent_id is NULL or any integer (the foreign key is not    *)
(* enforced), so a row can be its own parent, two rows each other's, or a  *)
(* parent can be missing.  A path is the sequence of the pieces the        *)
(* f-string concatenates; "" is the empty sequence.  hier holds the        *)
(* position of the run: the rows still to resolve, the column full_path    *)
(* filled so far, and inside get_full_path the frames waiting for their    *)
(* parent_path, the shared set visited, the argument of the call in        *)
(* progress and the value just returned.                                   *)
(***************************************************************************)

\* names of the rows, in the order of ORDER BY name
PathNames == <<"Errands", "Garden", "Home", "Kitchen", "Office", "Work">>

PathIds == 1..MaxPathCats

\* the frames Python allows (sys.getrecursionlimit()) are more than a walk
\* over distinct ids needs; the model keeps that relation
RecursionLimit == MaxPathCats + 2

Separator == " > "
CycleMarker == "... (cycle)"

\* the categories tables of SpecPath
CategoryTables ==
    {{[id |-> i, name |-> PathNames[i], parent_id |-> parent[i]] : i \in ids} :
        <<ids, parent>> \in (SUBSET PathIds) \X [PathIds -> {NULL} \cup PathIds]}

\* cat_map = dict(zip(categories['id'], categories['name']))
cat_map == [i \in {c.id : c \in categories} |->
               (CHOOSE c \in categories : c.id = i).name]

\* categories[categories['id'] == cat_id]['parent_id'].iloc[0]
ParentIdOf(cat_id) == (CHOOSE c \in categories : c.id = cat_id).parent_id

\* variant: the leaf is put first (f"{name} > {parent_path}")
JoinLeafFirst(parent_path, name) == <<name, Separator>> \o parent_path

\* f"{parent_path} > {name}"
JoinPath(parent_path, name) == parent_path \o <<Separator, name>>

\* variant: the set visited is not consulted
NeverInVisited(cat_id, visited) == FALSE

\* if cat_id in visited
InVisited(cat_id, visited) == cat_id \in visited

\* get_full_path(cat_id, visited) as a function of the table: the value the
\* call returns
RECURSIVE FullPath(_, _)
FullPath(cat_id, visited) ==
    IF cat_id = NULL \/ cat_id \notin DOMAIN cat_map THEN <<>>
    ELSE IF InVisited(cat_id, visited) THEN <<CycleMarker>>
    ELSE LET parent_path == FullPath(ParentIdOf(cat_id), visited \cup {cat_id})
             name == cat_map[cat_id]
         IN  IF Len(parent_path) > 0 THEN JoinPath(parent_path, name) ELSE <<name>>

\* the rows not yet resolved, first in row order
FirstRow(todo) == CHOOSE i \in todo : \A j \in todo : i <= j

PathIdle == [pc |-> "start", todo |-> {}, full_path |-> <<>>, stack |-> <<>>,
             visited |-> {}, cat_id |-> NULL, parent_path |-> <<>>]

InitPath ==
    /\ categories \in CategoryTables
    /\ tasks = {}
    /\ task_status_logs = {}
    /\ cat_seq = MaxPathCats
    /\ task_seq = 0
    /\ log_seq = 0
    /\ running = EmptyBag
    /\ ret = Returned
    /\ hier = PathIdle

\* categories = fetch_categories(); an empty frame is returned at once
build_category_hierarchy ==
    /\ hier.pc = "start"
    /\ hier' = IF categories = {}
               THEN [hier EXCEPT !.pc = "done"]
               ELSE [hier EXCEPT !.pc = "apply", !.todo = DOMAIN cat_map]
    /\ UNCHANGED <<store, running, ret>>

\* categories['id'].apply(get_full_path): the call for the next row, with
\* visited=None
ApplyGetFullPath ==
    /\ hier.pc = "apply"
    /\ hier.todo # {}
    /\ hier' = [hier EXCEPT !.pc = "call", !.cat_id = FirstRow(hier.todo),
                            !.visited = {}, !.stack = <<>>]
    /\ UNCHANGED <<store, running, ret>>

\* get_full_path from its entry to the recursive call or to a return
get_full_path ==
    /\ hier.pc = "call"
    /\ hier' =
         IF Len(hier.stack) >= RecursionLimit
         THEN [hier EXCEPT !.pc = "RecursionError"]
         ELSE IF hier.cat_id = NULL \/ hier.cat_id \notin DOMAIN cat_map
         THEN [hier EXCEPT !.pc = "return", !.parent_path = <<>>]
         ELSE IF InVisited(hier.cat_id, hier.visited)
         THEN [hier EXCEPT !.pc = "return", !.parent_path = <<CycleMarker>>]
         ELSE [hier EXCEPT !.visited = hier.visited \cup {hier.cat_id},
                           !.stack = Append(hier.stack, hier.cat_id),
                           !.cat_id = ParentIdOf(hier.cat_id)]
    /\ UNCHANGED <<store, running, ret>>

\* the frame on top of the stack takes parent_path and returns its own path;
\* the outermost frame returns it to apply, which fills the row's full_path
ReturnPath ==
    /\ hier.pc = "return"
    /\ LET cat_id == hier.stack[Len(hier.stack)]
           name == cat_map[cat_id]
           path == IF Len(hier.parent_path) > 0
                   THEN JoinPath(hier.parent_path, name)
                   ELSE <<name>>
       IN  hier' = IF Len(hier.stack) > 1
                   THEN [hier EXCEPT !.parent_path = path,
                                     !.stack = SubSeq(hier.stack, 1, Len(hier.stack) - 1)]
                   ELSE [hier EXCEPT !.pc = "apply", !.stack = <<>>,
                                     !.parent_path = <<>>, !.cat_id = NULL,
                                     !.visited = {},
                                     !.todo = hier.todo \ {cat_id},
                                     !.full_path = (cat_id :> path) @@ hier.full_path]
    /\ UNCHANGED <<store, running, ret>>

\* return categories
ReturnCategories ==
    /\ hier.pc = "apply"
    /\ hier.todo = {}
    /\ hier' = [hier EXCEPT !.pc = "done"]
    /\ UNCHANGED <<store, running, ret>>

NextPath ==
    \/ build_category_hierarchy
    \/ ApplyGetFullPath
    \/ get_full_path
    \/ ReturnPath
    \/ ReturnCategories

\* the interpreter runs the function on: a step that can be taken is taken
SpecPath == InitPath /\ [][NextPath]_vars /\ WF_vars(NextPath)

-----------------------------------------------------------------------------
(* Export to Markdown, App.py *)
(***************************************************************************)
(* The button handler reads the store and writes one document.  Of the     *)
(* document the model keeps which tasks are written under "## Active       *)
(* Tasks" and which under "## Completed Tasks", in the order of writing.   *)
(* SpecExport runs the handler on stores that the forms can produce: one   *)
(* category, main tasks in it or uncategorized, subtasks with the category *)
(* of their parent under a parent that has a log, every task with no log   *)
(* entry (its first insert_status_log failed), with "Not Started", or with *)
(* one update after it.                                                    *)
(***************************************************************************)

\* tasks_df['current_status'].isin(['Completed','Cancelled'])
ClosedRow(row) == row.current_status \in {"Completed", "Cancelled"}
OpenRow(row) == ~ClosedRow(row)

\* children[parent].append(row): the rows of tasks_df under a parent
ExportChildren(tasks_df, id) ==
    SelectSeq(tasks_df, LAMBDA row : row.parent_id = id)

\* sorted(rows, key=sort_key): ascending due date, rows without one last,
\* rows of one date in their former order
RECURSIVE SortedByDueDate(_, _)
SortedByDueDate(rows, dates) ==
    IF dates = {}
    THEN SelectSeq(rows, LAMBDA row : row.due_date = NULL)
    ELSE LET soonest == CHOOSE d \in dates : \A e \in dates : d <= e
         IN  SelectSeq(rows, LAMBDA row : row.due_date = soonest)
                 \o SortedByDueDate(rows, dates \ {soonest})

\* write_task_recursive(row): the row, then its children and theirs
RECURSIVE write_task_recursive(_, _)
RECURSIVE WriteTasks(_, _)
write_task_recursive(tasks_df, row) ==
    <<row>> \o WriteTasks(tasks_df,
                 SortedByDueDate(ExportChildren(tasks_df, row.id), DueDates \ {NULL}))

\* for child in child_rows_sorted / for root in root_tasks_sorted
WriteTasks(tasks_df, rows) ==
    IF rows = <<>> THEN <<>>
    ELSE write_task_recursive(tasks_df, Head(rows)) \o WriteTasks(tasks_df, Tail(rows))

\* section_df.groupby('category_id', sort=False): pandas leaves out the rows
\* whose key is NaN
GroupKeys(section_df) == {row.category_id : row \in Rows(section_df)} \ {NULL}

\* the groups one after the other; the order of the groups (first appearance
\* in the frame) is the order of their first rows' ids
RECURSIVE WriteGroups(_, _, _)
WriteGroups(tasks_df, section_df, keys) ==
    IF keys = {} THEN <<>>
    ELSE LET first == CHOOSE i \in 1..Len(section_df) :
                         /\ section_df[i].category_id \in keys
                         /\ \A j \in 1..(i - 1) : section_df[j].category_id \notin keys
             cat_id == section_df[first].category_id
             root_tasks == SelectSeq(section_df, LAMBDA row :
                               row.category_id = cat_id /\ row.parent_id = NULL)
         IN  WriteTasks(tasks_df, SortedByDueDate(root_tasks, DueDates \ {NULL}))
                 \o WriteGroups(tasks_df, section_df, keys \ {cat_id})

\* md.write("## Active Tasks") ... / md.write("## Completed Tasks") ...
WriteSection(tasks_df, section_df) ==
    WriteGroups(tasks_df, section_df, GroupKeys(section_df))

\* the ids of the rows written
TaskIds(rows) == [i \in 1..Len(rows) |-> rows[i].id]

\* "Generate & Download Markdown": st.warning without tasks; KeyError of
\* status_colors[row['current_status']] when a written row is "Pending";
\* otherwise the document
export ==
    LET tasks_df == fetch_task_tree({}, TRUE)
        active_df == SelectSeq(tasks_df, OpenRow)
        completed_df == SelectSeq(tasks_df, ClosedRow)
        active == WriteSection(tasks_df, active_df)
        completed == WriteSection(tasks_df, completed_df)
    IN  IF Len(tasks_df) = 0
        THEN [out |-> "warning", category_id |-> NULL]
        ELSE IF \E row \in Rows(active \o completed) : ~HasStatusColor(row.current_status)
        THEN Raised
        ELSE [out |-> "document", category_id |-> NULL,
              active |-> TaskIds(active), completed |-> TaskIds(completed)]

\* the log of a task: none, the first entry, or one update after it
Histories ==
    {<<>>, <<"Not Started">>} \cup {<<"Not Started", s>> : s \in StatusChoices}

\* entries of the tasks before task i
RECURSIVE EntriesBefore(_, _)
EntriesBefore(history, i) ==
    IF i = 1 THEN 0 ELSE EntriesBefore(history, i - 1) + Len(history[i - 1])

ExportTasks(n, parent, cat) ==
    {[id |-> i, description |-> NULL, due_date |-> NULL,
      parent_id |-> parent[i], category_id |-> cat[i]] : i \in 1..n}

ExportLogs(n, history) ==
    UNION {{[id |-> EntriesBefore(history, i) + k, task_id |-> i,
             status_id |-> StatusIdOf(history[i][k]), timestamp |-> 0] :
               k \in 1..Len(history[i])} : i \in 1..n}

InitExport ==
    \E n \in 0..MaxExportTasks :
      \E parent \in [1..n -> 0..n], cat \in [1..n -> {NULL, 1}],
         history \in [1..n -> Histories] :
        /\ \A i \in 1..n :
             /\ parent[i] < i
             /\ parent[i] # NULL =>
                  cat[i] = cat[parent[i]] /\ history[parent[i]] # <<>>
        /\ categories = {[id |-> 1, name |-> "Work", parent_id |-> NULL]}
        /\ cat_seq = 1
        /\ tasks = ExportTasks(n, parent, cat)
        /\ task_seq = n
        /\ task_status_logs = ExportLogs(n, history)
        /\ log_seq = EntriesBefore(history, n + 1)
        /\ running = EmptyBag
        /\ ret = Returned
        /\ hier = [pc |-> "off"]

\* if st.button("Generate & Download Markdown")
ExportMarkdown ==
    /\ ret = Returned
    /\ ret' = export
    /\ UNCHANGED <<store, running, hier>>

NextExport == ExportMarkdown

SpecExport == InitExport /\ [][NextExport]_vars

-----------------------------------------------------------------------------
(* Properties *)

EntriesOf(task_id) == {e \in task_status_logs : e.task_id = task_id}

\* entry e carries the maximum (timestamp, id) pair among the entries
MaxTimestampId(e, entries) ==
    \A o \in entries :
        \/ o.timestamp < e.timestamp
        \/ o.timestamp = e.timestamp /\ o.id <= e.id

\* C1: for every task, get_current_status is the status name of the task's
\* log entry with the maximum (timestamp, id) pair, and it is "Pending"
\* exactly when the task has no log entry.
CurrentStatusIsLatestEntry ==
    \A t \in tasks :
        /\ get_current_status(t.id) = "Pending" <=> EntriesOf(t.id) = {}
        /\ \A e \in EntriesOf(t.id) :
             MaxTimestampId(e, EntriesOf(t.id)) =>
                \E s \in statuses :
                    s.id = e.status_id /\ s.name = get_current_status(t.id)

\* a task whose two newest entries share a timestamp and differ in status
LatestEntriesTie ==
    \E t \in tasks : \E e1, e2 \in EntriesOf(t.id) :
        /\ e1.id < e2.id
        /\ e1.timestamp = e2.timestamp
        /\ e1.status_id # e2.status_id
        /\ MaxTimestampId(e2, EntriesOf(t.id))

\* C2: every task that exists has a log entry (its status is never "Pending"),
\* and a task with no later status operation has exactly the one entry
\* "Not Started".
TaskAlwaysHasInitialLog ==
    \A t \in tasks :
        /\ EntriesOf(t.id) # {}
        /\ get_current_status(t.id) # "Pending"
        /\ \E e \in EntriesOf(t.id) :
             /\ e.status_id = StatusIdOf("Not Started")
             /\ \A o \in EntriesOf(t.id) : e.id <= o.id

\* the step is a delete_category(category_id) that returns success
DeleteCategorySucceeds(category_id) ==
    DeleteCategory(category_id, 0)

\* C3: after a successful delete_category(C) the category C does not exist,
\* every category whose parent was C has parent_id NULL, every task whose
\* category was C has category_id NULL, and no row references C.
DeleteCategoryClearsReferences ==
    [][\A c \in 1..cat_seq :
         DeleteCategorySucceeds(c) =>
            /\ \A x \in categories' : x.id # c /\ x.parent_id # c
            /\ \A t \in tasks' : t.category_id # c
            /\ \A x \in categories : (x.parent_id = c /\ x.id # c) =>
                 \E y \in categories' : y.id = x.id /\ y.parent_id = NULL
            /\ \A t \in tasks : t.category_id = c =>
                 \E u \in tasks' : u.id = t.id /\ u.category_id = NULL
            /\ ret' = DeleteReturned(c, TRUE)]_vars

\* delete_category(c) has returned success, c is gone, a younger category is
\* top-level and a task is uncategorized
DeletedCategoryHadContents ==
    \E c \in 1..cat_seq :
        /\ ret = DeleteReturned(c, TRUE)
        /\ \A x \in categories : x.id # c
        /\ \E x \in categories : x.id > c /\ x.parent_id = NULL
        /\ \E t \in tasks : t.category_id = NULL

\* the step is a delete_category(category_id) with a statement that raises
DeleteCategoryFails(category_id) ==
    \E failAt \in 1..4 : DeleteCategory(category_id, failAt)

\* the step removes the row of c or takes a reference to c out of a row
TouchesCategory(c) ==
    \/ \E x \in categories : x.id = c /\ \A y \in categories' : y.id # c
    \/ \E x \in categories : x.parent_id = c /\
           \E y \in categories' : y.id = x.id /\ y.parent_id # c
    \/ \E t \in tasks : t.category_id = c /\
           \E u \in tasks' : u.id = t.id /\ u.category_id # c

\* C4: delete_category is all-or-nothing: when a statement fails the store
\* is as before the call and the call returns (False, message); no step
\* commits only a part of the three mutations.
DeleteCategoryAllOrNothing ==
    [][\A c \in 1..cat_seq :
         /\ DeleteCategoryFails(c) =>
               /\ UNCHANGED store
               /\ ret' = DeleteReturned(c, FALSE)
         /\ TouchesCategory(c) =>
               /\ \A x \in categories' : x.id # c /\ x.parent_id # c
               /\ \A t \in tasks' : t.category_id # c]_vars

\* delete_category(c) has returned failure and c is there with a
\* sub-category and a task
FailedDeleteKeptContents ==
    \E c \in categories :
        /\ ret = DeleteReturned(c.id, FALSE)
        /\ \E x \in categories : x.parent_id = c.id
        /\ \E t \in tasks : t.category_id = c.id

\* the category filters of the task view
CategoryFilters == SUBSET (1..cat_seq)

\* the task passes the category filter
Matches(t, selected_category_ids) ==
    selected_category_ids = {} \/ t.category_id \in selected_category_ids

Closed(task_id) == get_current_status(task_id) \in {"Completed", "Cancelled"}

ReturnedIds(df) == {row.id : row \in Rows(df)}

\* C5: with show_completed false fetch_task_tree returns exactly the matching
\* tasks whose status is neither Completed nor Cancelled, with show_completed
\* true exactly the matching tasks.
FetchTaskTreeCompletionFilter ==
    \A selected \in CategoryFilters :
        /\ ReturnedIds(fetch_task_tree(selected, FALSE))
              = {t.id : t \in {u \in tasks : Matches(u, selected) /\ ~Closed(u.id)}}
        /\ ReturnedIds(fetch_task_tree(selected, TRUE))
              = {t.id : t \in {u \in tasks : Matches(u, selected)}}
        /\ \A show_completed \in BOOLEAN :
             \A row \in Rows(fetch_task_tree(selected, show_completed)) :
                row.current_status = get_current_status(row.id)

\* a Cancelled task in a category is hidden while another task of the store
\* is returned, and both are returned with show_completed
CancelledTaskHidden ==
    \E t1, t2 \in tasks :
        /\ get_current_status(t1.id) = "Cancelled"
        /\ t1.id \notin ReturnedIds(fetch_task_tree({}, FALSE))
        /\ t2.id \in ReturnedIds(fetch_task_tree({}, FALSE))
        /\ {t1.id, t2.id} \subseteq ReturnedIds(fetch_task_tree({}, TRUE))

\* C6: num_subtasks of every returned row is the number of rows of the same
\* result whose parent_id is the row's id.
NumSubtasksCountsReturnedRows ==
    \A selected \in CategoryFilters, show_completed \in BOOLEAN :
        LET df == fetch_task_tree(selected, show_completed)
        IN  \A row \in Rows(df) :
                row.num_subtasks = Cardinality({r \in Rows(df) : r.parent_id = row.id})

\* C9: every step leaves task_status_logs unchanged or appends exactly one
\* entry with a fresh id; no entry is modified or removed.
StatusLogAppendOnly ==
    [][\/ task_status_logs' = task_status_logs
       \/ \E e \in task_status_logs' :
            /\ \A o \in task_status_logs : o.id # e.id
            /\ task_status_logs' = task_status_logs \cup {e}]_vars

\* a task with two log entries, after a description or due date was saved
\* and a category deleted
LogGrewBesideOtherWrites ==
    /\ \E t \in tasks : Cardinality(EntriesOf(t.id)) >= 2
    /\ Cardinality(categories) < cat_seq

\* C10: insert_status_log with a name outside the seeded statuses raises and
\* appends nothing: the log is as it was, and with it every current status,
\* which get_current_status reads from the log and the seeded statuses alone;
\* with a seeded name it appends exactly one entry, of the task and with the
\* id of that status.
InsertStatusLogChecksName ==
    [][\A t \in tasks, status_name \in StatusArguments, current_timestamp \in Clock :
         CallInsertStatusLog(t.id, status_name, current_timestamp) =>
            IF \E x \in statuses : x.name = status_name
            THEN /\ ret' = Returned
                 /\ \E e \in task_status_logs' :
                      /\ e \notin task_status_logs
                      /\ task_status_logs' = task_status_logs \cup {e}
                      /\ e.task_id = t.id
                      /\ \E x \in statuses : x.name = status_name /\ x.id = e.status_id
            ELSE /\ ret' = Raised
                 /\ UNCHANGED <<task_status_logs, log_seq>>]_vars

\* a call has raised while the log holds an entry of a status that the
\* status form of this model never writes
UnknownNameRaisedBesideBlocked ==
    /\ ret = Raised
    /\ \E e \in task_status_logs, x \in statuses :
         x.id = e.status_id /\ x.name = "Blocked"

\* the category reached from cat_id by following parent_id k times, NULL once
\* the walk has left the table
RECURSIVE ParentSteps(_, _)
ParentSteps(cat_id, k) ==
    IF cat_id \notin DOMAIN cat_map THEN NULL
    ELSE IF k = 0 THEN cat_id
    ELSE ParentSteps(ParentIdOf(cat_id), k - 1)

\* following parent_id from cat_id never leaves the table: it runs in a cycle
CyclicAncestry(cat_id) ==
    ParentSteps(cat_id, Cardinality(categories)) \in DOMAIN cat_map

Acyclic == \A c \in categories : ~CyclicAncestry(c.id)

\* the names from the root of cat_id's chain down to cat_id (acyclic tables)
RECURSIVE AncestorNames(_)
AncestorNames(cat_id) ==
    IF cat_id \notin DOMAIN cat_map THEN <<>>
    ELSE Append(AncestorNames(ParentIdOf(cat_id)), cat_map[cat_id])

WithSeparators(names) ==
    [i \in 1..(2 * Len(names) - 1) |->
        IF i % 2 = 1 THEN names[(i + 1) \div 2] ELSE Separator]

\* C7: on an acyclic table build_category_hierarchy gives a top-level category
\* its name as path and a category D with parent C the path
\* path(C) + " > " + name(D); the path lists the ancestor names from the root
\* down to the category.
PathsFollowParents ==
    hier.pc = "done" /\ Acyclic =>
        \A d \in categories :
            /\ d.parent_id = NULL => hier.full_path[d.id] = <<d.name>>
            /\ \A c \in categories :
                 d.parent_id = c.id =>
                    hier.full_path[d.id] = hier.full_path[c.id] \o <<Separator, d.name>>
            /\ hier.full_path[d.id] = WithSeparators(AncestorNames(d.id))

\* the run is over on an acyclic table that holds a chain of three categories
ChainOfThreeResolved ==
    /\ hier.pc = "done"
    /\ Acyclic
    /\ \E d \in categories :
         /\ Len(AncestorNames(d.id)) = 3
         /\ Len(hier.full_path[d.id]) = 5

PiecesOf(path) == {path[i] : i \in 1..Len(path)}

\* C8: path resolution terminates on every table, cyclic ones included: the
\* run reaches its return, no category id is entered twice in the walk of one
\* path, the recursion limit is never hit, and the path of a category whose
\* ancestry runs in a cycle holds the marker "... (cycle)".
PathResolutionTerminates ==
    /\ [](/\ hier.pc # "RecursionError"
          /\ hier.pc \in {"call", "return"} =>
               /\ \A i, j \in 1..Len(hier.stack) :
                    i # j => hier.stack[i] # hier.stack[j]
               /\ Len(hier.stack) <= Cardinality(categories)
          /\ hier.pc = "done" =>
               \A c \in categories :
                  CyclicAncestry(c.id) => CycleMarker \in PiecesOf(hier.full_path[c.id]))
    /\ <>(hier.pc = "done")

\* the run is over on a table with a row that is its own parent and two rows
\* that are each other's parents
CyclesResolved ==
    /\ hier.pc = "done"
    /\ \E a, b, c \in categories :
         /\ a.parent_id = a.id
         /\ b.id # c.id /\ b.parent_id = c.id /\ c.parent_id = b.id
         /\ \A x \in {a, b, c} : CycleMarker \in PiecesOf(hier.full_path[x.id])

\* C11: fetch_status_history(T) lists exactly the entries of T, an entry
\* appended later before every entry appended earlier, so its first row has
\* the status that get_current_status(T) returns.
StatusHistoryNewestFirst ==
    \A t \in tasks :
        \A history \in fetch_status_history(t.id) :
            /\ {row.id : row \in {history[i] : i \in 1..Len(history)}}
                  = {e.id : e \in EntriesOf(t.id)}
            /\ \A i, j \in 1..Len(history) : i < j => history[i].id > history[j].id
            /\ Len(history) > 0 => history[1].name = get_current_status(t.id)

\* C12: latest_status holds exactly one row per task, none for other ids, and
\* its status is the one get_current_status returns for the task: the status
\* of the latest entry, "Pending" without entries.
LatestStatusOnePerTask ==
    /\ \A row \in BagToSet(latest_status) : \E t \in tasks : t.id = row.task_id
    /\ \A t \in tasks :
         LET rows == {row \in BagToSet(latest_status) : row.task_id = t.id}
         IN  /\ Cardinality(rows) = 1
             /\ \A row \in rows :
                  /\ CopiesIn(row, latest_status) = 1
                  /\ row.status = get_current_status(t.id)

\* one task has entries of two statuses, another has none
LatestStatusOfUpdatedAndPending ==
    \E t, u \in tasks :
        /\ \E e, f \in EntriesOf(t.id) : e.status_id # f.status_id
        /\ EntriesOf(u.id) = {}
        /\ BagCardinality(latest_status) = Cardinality(tasks)

\* C13: in the exported document every task written under Active Tasks has a
\* current status other than Completed and Cancelled, and every task written
\* under Completed Tasks has one of the two, roots and nested subtasks alike.
ExportSectionsMatchStatus ==
    ret.out = "document" =>
        /\ \A i \in 1..Len(ret.active) : ~Closed(ret.active[i])
        /\ \A i \in 1..Len(ret.completed) : Closed(ret.completed[i])

\* C14: the exported document holds every task of the store exactly once.
ExportHoldsEveryTaskOnce ==
    ret.out = "document" =>
        LET written == ret.active \o ret.completed
        IN  \A t \in tasks :
                Cardinality({i \in 1..Len(written) : written[i] = t.id}) = 1

\* the step is a delete_category(category_id), whatever its outcome
DeleteCategoryCalled(category_id) ==
    \E failAt \in 0..4 : DeleteCategory(category_id, failAt)

\* C15: delete_category(c) never cascades: no task and no log entry goes, no
\* category other than c goes; a category row changes only in a parent_id
\* that was c and a task row only in a category_id that was c, both to NULL.
DeleteCategoryNeverCascades ==
    [][\A c \in 1..cat_seq :
         DeleteCategoryCalled(c) =>
            /\ UNCHANGED <<task_status_logs, cat_seq, task_seq, log_seq>>
            /\ \A x \in categories :
                 x.id # c => \E y \in categories' :
                    /\ y.id = x.id /\ y.name = x.name
                    /\ y.parent_id = x.parent_id \/ (x.parent_id = c /\ y.parent_id = NULL)
            /\ \A y \in categories' : \E x \in categories : x.id = y.id
            /\ \A t \in tasks :
                 \E u \in tasks' :
                    /\ u.id = t.id /\ u.parent_id = t.parent_id
                    /\ u.description = t.description /\ u.due_date = t.due_date
                    /\ u.category_id = t.category_id
                         \/ (t.category_id = c /\ u.category_id = NULL)
            /\ Cardinality(tasks') = Cardinality(tasks)]_vars

\* delete_category(c) has succeeded and a task is left uncategorized with its
\* due date and its log entry
DeletedCategoryLeftTask ==
    \E c \in 1..cat_seq :
        /\ ret = DeleteReturned(c, TRUE)
        /\ \A x \in categories : x.id # c
        /\ \E t \in tasks :
             /\ t.category_id = NULL /\ t.due_date # NULL
             /\ EntriesOf(t.id) # {}

\* C16: every parent_id of a category and every category_id of a task is
\* NULL or the id of a row of categories.
ReferentialIntegrity ==
    /\ \A c \in categories :
         c.parent_id = NULL \/ \E x \in categories : x.id = c.parent_id
    /\ \A t \in tasks :
         t.category_id = NULL \/ \E x \in categories : x.id = t.category_id

\* C17: each sort order returns exactly the rows of the filtered
\* fetch_task_tree result, every field as it was, in some order.
SortKeepsRows ==
    \A selected \in CategoryFilters, show_completed \in BOOLEAN,
       sort_by \in SortOptions \ {"Default Order"} :
        LET df == fetch_task_tree(selected, show_completed)
        IN  \A sorted \in SortTasks(df, sort_by) :
                Len(sorted) = Len(df) /\ Rows(sorted) = Rows(df)

\* the task reached from id by following parent_id k times, NULL once the
\* walk has left the table
RECURSIVE TaskParentSteps(_, _)
TaskParentSteps(id, k) ==
    IF ~\E t \in tasks : t.id = id THEN NULL
    ELSE IF k = 0 THEN id
    ELSE TaskParentSteps(TaskRow(id).parent_id, k - 1)

\* neither parent graph has a cycle, and no path of build_category_hierarchy
\* holds the cycle marker
ParentGraphsAcyclic ==
    /\ Acyclic
    /\ \A t \in tasks : TaskParentSteps(t.id, Cardinality(tasks)) = NULL
    /\ \A c \in categories : CycleMarker \notin PiecesOf(FullPath(c.id, {}))

\* no step gives a row that is already there another parent than NULL
NoParentSetAfterwards ==
    /\ \A x \in categories : \A y \in categories' :
         y.id = x.id => y.parent_id \in {x.parent_id, NULL}
    /\ \A t \in tasks : \A u \in tasks' :
         u.id = t.id => u.parent_id = t.parent_id

SubtaskSharesParentCategory ==
    \A t \in tasks :
        t.parent_id # NULL => t.category_id = TaskRow(t.parent_id).category_id

\* C20: for every category filter and either value of show_completed, each
\* row that fetch_task_tree returns is rendered by the task view, as a root of
\* its category group or below a rendered root of that group.
EveryReturnedRowRendered ==
    \A selected \in CategoryFilters, show_completed \in BOOLEAN :
        LET df == fetch_task_tree(selected, show_completed)
        IN  Rows(df) \subseteq RenderedRows(df)

\* C20 in a state where every task has a log entry, categories are referenced
\* only while they exist and a subtask has the category of its parent: the
\* rows that are still not rendered are hidden by the completion filter on a
\* parent alone.
RowsUnderHiddenParentRendered ==
    (/\ \A t \in tasks : get_current_status(t.id) \in status_options
     /\ \A t \in tasks : HasSubheader(t.category_id)
     /\ SubtaskSharesParentCategory)
    => EveryReturnedRowRendered

\* C21: for every task, no two consecutive entries of its status log (in
\* the order they were appended) carry the same status, also when status
\* updates are submitted from several sessions.
NoRepeatedStatusInLog ==
    \A t \in tasks : \A e, f \in EntriesOf(t.id) :
        (/\ e.id < f.id
         /\ \A g \in EntriesOf(t.id) : ~(e.id < g.id /\ g.id < f.id))
        => e.status_id # f.status_id

====
